---- MODULE Spec2Model ----
(***************************************************************************)
(* Model of apps/server/scripts/transcribe_faster_whisper.py:              *)
(*   - resolve_auto_device(): the two-probe device fallback chain          *)
(*   - main(): load model -> transcribe -> accumulate -> write -> report   *)
(*   - the output path derivation (os.path.basename/splitext/join)         *)
(*   - two invocations racing on the same output path                      *)
(* Strings are sequences of one-character strings.                         *)
(***************************************************************************)
EXTENDS Integers, Sequences, FiniteSets, TLC

VARIABLES
    pc,            \* position of main(): idle, loading, transcribing, accumulating,
                   \* writing, reporting, done, failed, crashed
    args,          \* parsed command line (line 68)
    env,           \* what the two optional libraries answer in this environment
    device,        \* local `device` of main
    auto_source,   \* local `auto_source` of main
    torch_imported,\* whether __import__("torch") was executed
    yielded,       \* raw segments the engine's generator has yielded so far
    info,          \* metadata record returned by model.transcribe
    results,       \* local `results`
    text_content,  \* local `text_content`
    final_json,    \* local `final_json` (NoDoc until built)
    output_json_path, \* local `output_json_path`
    f_open,        \* the file object `f` is open
    f_pos,         \* file offset of `f` (number of chunks written through it)
    fs,            \* the file system: path -> [exists, data]
    fs0,           \* the file system when the process started
    stdout,        \* lines printed on stdout
    stderr,        \* messages printed on stderr
    exit_code,     \* process exit status, -1 while running
    calls,         \* how often the engine constructor, transcribe and open ran
    trail,         \* the positions main() has been in, in order
    raised,        \* the step of main whose exception reached a handler ("" if none)
    dp,            \* path derivation harness: [output_dir, audio_path, out, done]
    rc,            \* two racing writers: per process [pc, doc, pos]
    last_writer    \* the racing writer whose write(2) reached the file last (0: none)

vars == <<pc, args, env, device, auto_source, torch_imported, yielded, info,
          results, text_content, final_json, output_json_path, f_open, f_pos,
          fs, fs0, stdout, stderr, exit_code, calls, trail, raised, dp, rc, last_writer>>

mainVars == <<pc, args, env, device, auto_source, torch_imported, yielded, info,
              results, text_content, final_json, output_json_path, f_open, f_pos,
              stdout, stderr, exit_code, calls, trail, raised, fs0>>

-----------------------------------------------------------------------------
(* Bounds *)

MaxSegs == 2
MaxPathLen == 3
MaxGpus == 2

-----------------------------------------------------------------------------
(* Generic helpers *)

SetMin(S) == CHOOSE x \in S : \A y \in S : x <= y
SetMax(S) == CHOOSE x \in S : \A y \in S : x >= y

SeqsUpTo(S, n) == UNION {[1..k -> S] : k \in 0..n}

-----------------------------------------------------------------------------
(* resolve_auto_device, lines 9-29 *)

\* What `import ctranslate2` / get_cuda_device_count() does in the environment.
CtOutcomes ==
    {[kind |-> k, count |-> 0] : k \in {"missing", "import_error", "no_attr", "query_error"}}
    \cup {[kind |-> "count", count |-> n] : n \in 0..MaxGpus}

\* What __import__("torch") / torch.cuda.is_available() does in the environment.
TorchOutcomes ==
    {[kind |-> k, available |-> FALSE] : k \in {"missing", "import_error", "query_error"}}
    \cup {[kind |-> "answer", available |-> b] : b \in BOOLEAN}

Return(d, s) == [ctl |-> "return", device |-> d, source |-> s, exc |-> "", torch |-> FALSE]
Raise(e)     == [ctl |-> "raise", device |-> "", source |-> "", exc |-> e, torch |-> FALSE]
FallThrough  == [ctl |-> "next", device |-> "", source |-> "", exc |-> "", torch |-> FALSE]

\* Body of the first try block, lines 12-18.
Ctranslate2Probe(ct) ==
    IF ct.kind = "missing" THEN Raise("ModuleNotFoundError")
    ELSE IF ct.kind = "import_error" THEN Raise("OSError")
    ELSE IF ct.kind = "no_attr" THEN FallThrough
    ELSE IF ct.kind = "query_error" THEN Raise("RuntimeError")
    ELSE IF ct.count > 0 THEN Return("cuda", "ctranslate2")
    ELSE FallThrough

\* Body of the second try block, lines 23-25.
TorchProbe(th) ==
    IF th.kind = "missing" THEN Raise("ModuleNotFoundError")
    ELSE IF th.kind = "import_error" THEN Raise("OSError")
    ELSE IF th.kind = "query_error" THEN Raise("RuntimeError")
    ELSE IF th.available THEN Return("cuda", "torch")
    ELSE FallThrough

CaughtOnlyImportError(e) == e \in {"ModuleNotFoundError", "ImportError"}

\* `except Exception:` (lines 19, 26): every exception class a probe raises here
\* derives from Exception.
CaughtByExcept(e) == e \in {"ModuleNotFoundError", "ImportError", "OSError", "RuntimeError"}

\* try: body / except Exception: pass
Guarded(r) == IF r.ctl = "raise" /\ CaughtByExcept(r.exc) THEN FallThrough ELSE r

ResolveTorchFirst(ct, th) ==
    LET r2 == Guarded(TorchProbe(th)) IN
    IF r2.ctl # "next" THEN [r2 EXCEPT !.torch = TRUE]
    ELSE LET r1 == Guarded(Ctranslate2Probe(ct)) IN
         IF r1.ctl # "next" THEN [r1 EXCEPT !.torch = TRUE]
         ELSE [Return("cpu", "fallback") EXCEPT !.torch = TRUE]

resolve_auto_device(ct, th) ==
    LET r1 == Guarded(Ctranslate2Probe(ct)) IN
    IF r1.ctl # "next" THEN r1
    ELSE LET r2 == Guarded(TorchProbe(th)) IN
         IF r2.ctl # "next" THEN [r2 EXCEPT !.torch = TRUE]
         ELSE [Return("cpu", "fallback") EXCEPT !.torch = TRUE]

-----------------------------------------------------------------------------
(* Output path derivation, lines 136-138 (posix os.path) *)

Slash == "/"
Dot == "."

\* str.rfind(c), 1-based; 0 when c does not occur.
RFind(p, c) == SetMax({0} \cup {i \in 1..Len(p) : p[i] = c})

\* os.path.basename(p): i = p.rfind('/') + 1; return p[i:]
Basename(p) == SubSeq(p, RFind(p, Slash) + 1, Len(p))

\* The while loop of genericpath._splitext: skip the leading dots of the file name.
RECURSIVE SplitScan(_, _, _)
SplitScan(p, filenameIndex, dotIndex) ==
    IF filenameIndex < dotIndex
    THEN IF p[filenameIndex] # Dot
         THEN <<SubSeq(p, 1, dotIndex - 1), SubSeq(p, dotIndex, Len(p))>>
         ELSE SplitScan(p, filenameIndex + 1, dotIndex)
    ELSE <<p, <<>>>>

SplitextFirstDot(p) ==
    LET dots == {i \in 1..Len(p) : p[i] = Dot} IN
    IF dots = {} THEN <<p, <<>>>>
    ELSE <<SubSeq(p, 1, SetMin(dots) - 1), SubSeq(p, SetMin(dots), Len(p))>>

\* os.path.splitext(p) -> (root, ext)
Splitext(p) ==
    LET sepIndex == RFind(p, Slash)
        dotIndex == RFind(p, Dot)
    IN IF dotIndex > sepIndex THEN SplitScan(p, sepIndex + 1, dotIndex) ELSE <<p, <<>>>>

\* os.path.join(a, b)
PathJoin(a, b) ==
    IF b # <<>> /\ b[1] = Slash THEN b
    ELSE IF a = <<>> \/ a[Len(a)] = Slash THEN a \o b
    ELSE a \o <<Slash>> \o b

JsonSuffix == <<".", "j", "s", "o", "n">>

\* lines 136-138: filename, name, output_json_path
DerivePath(output_dir, audio_path) ==
    LET filename == Basename(audio_path)
        name == Splitext(filename)[1]
    IN PathJoin(output_dir, name \o JsonSuffix)

-----------------------------------------------------------------------------
(* Segment accumulation, lines 110-133 *)

Whitespace == {" "}

\* What the engine's generator can yield: objects with start, end, text.
RawSegments ==
    {[start |-> 0, end |-> 1, text |-> <<"a">>],
     [start |-> 1, end |-> 2, text |-> <<" ", "b", " ">>],
     [start |-> 1, end |-> 2, text |-> <<" ", " ">>],
     [start |-> 2, end |-> 3, text |-> <<"a", " ", "b", " ">>]}

\* The metadata record model.transcribe returns (probability in percent).
Infos == {[language |-> "en", language_probability |-> 98, duration |-> 3]}

\* str.strip(): drop leading and trailing whitespace.
Strip(s) ==
    LET keep == {i \in 1..Len(s) : s[i] \notin Whitespace} IN
    IF keep = {} THEN <<>> ELSE SubSeq(s, SetMin(keep), SetMax(keep))

\* " ".join(parts)
RECURSIVE JoinTexts(_)
JoinTexts(parts) ==
    IF parts = <<>> THEN <<>>
    ELSE IF Len(parts) = 1 THEN parts[1]
    ELSE parts[1] \o <<" ">> \o JoinTexts(Tail(parts))

SegmentDictUnstripped(i, segment) ==
    [id |-> i + 1, start |-> segment.start, end |-> segment.end, text |-> segment.text]

\* lines 111-116: the dict built for the i-th (0-based) yielded segment
SegmentDict(i, segment) ==
    [id |-> i, start |-> segment.start, end |-> segment.end, text |-> Strip(segment.text)]

NoSeg == [id |-> 0, start |-> 0, end |-> 0, text |-> <<>>]

NoDoc == [built |-> FALSE, text |-> <<>>, segments |-> <<>>, language |-> "",
          language_probability |-> 0, duration |-> 0]

\* lines 127-133
FinalJson(texts, segs, meta) ==
    [built |-> TRUE, text |-> JoinTexts(texts), segments |-> segs,
     language |-> meta.language, language_probability |-> meta.language_probability,
     duration |-> meta.duration]

-----------------------------------------------------------------------------
(* json.dump and the file, lines 140-141 *)

\* json.dump writes the document to the file as a sequence of chunks.
Chunk(tag, text, seg, str, num) ==
    [tag |-> tag, text |-> text, seg |-> seg, str |-> str, num |-> num]

Punct(t) == Chunk(t, <<>>, NoSeg, "", 0)

\* A hole left by a write past the end of the file (zero bytes).
Hole == Punct("NUL")

Serialise(doc) ==
    <<Punct("{"), Chunk("text", doc.text, NoSeg, "", 0), Punct("[")>>
    \o [i \in 1..Len(doc.segments) |-> Chunk("segment", <<>>, doc.segments[i], "", 0)]
    \o <<Punct("]"),
         Chunk("language", <<>>, NoSeg, doc.language, 0),
         Chunk("language_probability", <<>>, NoSeg, "", doc.language_probability),
         Chunk("duration", <<>>, NoSeg, "", doc.duration),
         Punct("}")>>

\* json.load of a file's data: the document it holds (meaningful when well formed).
Parse(data) ==
    LET n == Len(data) - 8 IN
    [built |-> TRUE, text |-> data[2].text,
     segments |-> [i \in 1..n |-> data[3 + i].seg],
     language |-> data[n + 5].str,
     language_probability |-> data[n + 6].num,
     duration |-> data[n + 7].num]

\* The data is one complete, well-formed document.
WellFormed(data) == Len(data) >= 8 /\ Serialise(Parse(data)) = data

NoFile == [exists |-> FALSE, data |-> <<>>]

\* open(path, "w"): create the file or truncate it to length 0.
OpenTruncate(files, path) == [files EXCEPT ![path] = [exists |-> TRUE, data |-> <<>>]]

\* write(2) of `chunks` at offset `pos` through a descriptor opened without O_APPEND.
WriteAt(data, pos, chunks) ==
    LET end == pos + Len(chunks)
        newLen == IF end > Len(data) THEN end ELSE Len(data)
    IN [i \in 1..newLen |->
          IF i > pos /\ i <= end THEN chunks[i - pos]
          ELSE IF i <= Len(data) THEN data[i]
          ELSE Hole]

-----------------------------------------------------------------------------
(* main(), lines 36-154 *)

OutDir == <<"/", "o", "u", "t">>
ClipWav == <<"/", "i", "n", "/", "c", "l", "i", "p", ".", "w", "a", "v">>
ABMp3 == <<"a", ".", "b", ".", "m", "p", "3">>
AudioPaths == {ClipWav, ABMp3}

\* Command lines the parser accepts (line 68).
ArgSets ==
    [audio_path : {ClipWav}, output_dir : {OutDir}, device : {"auto", "cuda", "cpu"},
     model : {"base", "no-such-model"}, compute_type : {"default", "int8"},
     verbose : BOOLEAN]

\* The paths a run can name under output_dir.
OutPaths == {DerivePath(OutDir, a) : a \in AudioPaths}

\* A document left at the output path by an earlier run.
OldDoc == FinalJson(<<<<"a">>>>, <<SegmentDict(0, [start |-> 0, end |-> 1, text |-> <<"a">>])>>,
                    [language |-> "en", language_probability |-> 98, duration |-> 1])

OldFile == [exists |-> TRUE, data |-> Serialise(OldDoc)]

Idle == [pc |-> "idle", pos |-> 0, doc |-> NoDoc]

MainIdle ==
    /\ pc = "idle"
    /\ device = ""
    /\ auto_source = ""
    /\ torch_imported = FALSE
    /\ yielded = <<>>
    /\ info = [language |-> "", language_probability |-> 0, duration |-> 0]
    /\ results = <<>>
    /\ text_content = <<>>
    /\ final_json = NoDoc
    /\ output_json_path = <<>>
    /\ f_open = FALSE
    /\ f_pos = 0
    /\ stdout = <<>>
    /\ stderr = <<>>
    /\ exit_code = -1
    /\ calls = [load |-> 0, transcribe |-> 0, open |-> 0]
    /\ trail = <<"idle">>
    /\ raised = ""

Envs == [ct : CtOutcomes, th : TorchOutcomes]

\* One environment per way out of resolve_auto_device, and the one a run with an
\* explicit device never looks at.
NoGpuEnv == [ct |-> [kind |-> "missing", count |-> 0],
             th |-> [kind |-> "missing", available |-> FALSE]]
MainEnvs == {NoGpuEnv,
             [ct |-> [kind |-> "count", count |-> 1],
              th |-> [kind |-> "answer", available |-> TRUE]],
             [ct |-> [kind |-> "query_error", count |-> 0],
              th |-> [kind |-> "answer", available |-> TRUE]]}

DpIdle == [output_dir |-> <<>>, audio_path |-> <<>>, out |-> <<>>, done |-> FALSE]

OthersIdle ==
    /\ dp = DpIdle
    /\ rc = [p \in {1, 2} |-> Idle]
    /\ last_writer = 0

\* A run of main: any command line; the output path is free or holds an old document.
Init ==
    /\ MainIdle
    /\ args \in ArgSets
    /\ env \in MainEnvs
    /\ args.device # "auto" => env = NoGpuEnv
    /\ fs \in [OutPaths -> {NoFile, OldFile}]
    /\ \A q \in OutPaths : q # DerivePath(args.output_dir, args.audio_path) => fs[q] = NoFile
    /\ fs0 = fs
    /\ OthersIdle

Goto(l) == /\ pc' = l
           /\ trail' = IF l = pc THEN trail ELSE Append(trail, l)

\* print(..., file=sys.stderr) of the messages `ms`
Log(ms) == stderr' = stderr \o ms

\* The except handlers of main: message on stderr, sys.exit(1)  (88-90, 152-154)
ExitOne(msg, step) ==
    /\ Log(<<msg>>)
    /\ raised' = step
    /\ exit_code' = 1
    /\ Goto("failed")

\* lines 70-84: device selection and the verbose banner
ResolveDevice ==
    /\ pc = "idle"
    /\ LET r == IF args.device = "auto" THEN resolve_auto_device(env.ct, env.th)
                ELSE Return(args.device, "")
       IN /\ torch_imported' = r.torch
          /\ IF r.ctl = "raise"
             THEN \* an exception leaving resolve_auto_device is not handled in main
                  /\ Log(<<"traceback">>)
                  /\ exit_code' = 1
                  /\ Goto("crashed")
                  /\ UNCHANGED <<device, auto_source>>
             ELSE /\ device' = r.device
                  /\ auto_source' = r.source
                  /\ Log(IF args.verbose
                         THEN (IF r.source # "" THEN <<"auto_resolved">> ELSE <<>>)
                              \o <<"loading_model">>
                         ELSE <<>>)
                  /\ Goto("loading")
                  /\ UNCHANGED exit_code
    /\ UNCHANGED <<args, env, yielded, info, results, text_content, final_json,
                   output_json_path, f_open, f_pos, fs, fs0, stdout, calls, raised, dp, rc,
                   last_writer>>

LoadModelNoExit(ok) ==
    /\ pc = "loading"
    /\ calls' = [calls EXCEPT !.load = @ + 1]
    /\ Log(IF ~ok THEN <<"error_loading_model">>
           ELSE IF args.verbose THEN <<"transcribing">> ELSE <<>>)
    /\ raised' = IF ok THEN raised ELSE "load"
    /\ Goto("transcribing")
    /\ UNCHANGED <<args, env, device, auto_source, torch_imported, yielded, info, results,
                   text_content, final_json, output_json_path, f_open, f_pos, fs, fs0,
                   stdout, exit_code, dp, rc, last_writer>>

LoadModelRetry(ok) ==
    /\ pc = "loading"
    /\ calls.load < 3
    /\ calls' = [calls EXCEPT !.load = @ + 1]
    /\ IF ok
       THEN /\ Log(IF args.verbose THEN <<"transcribing">> ELSE <<>>)
            /\ Goto("transcribing")
       ELSE /\ Log(<<"error_loading_model">>)
            /\ Goto("loading")
    /\ raised' = IF ok THEN raised ELSE "load"
    /\ UNCHANGED <<args, env, device, auto_source, torch_imported, yielded, info, results,
                   text_content, final_json, output_json_path, f_open, f_pos, fs, fs0,
                   stdout, exit_code, dp, rc, last_writer>>

\* lines 86-93: WhisperModel(...) returns (ok) or raises (~ok)
LoadModel(ok) ==
    /\ pc = "loading"
    /\ calls' = [calls EXCEPT !.load = @ + 1]
    /\ IF ok
       THEN /\ Log(IF args.verbose THEN <<"transcribing">> ELSE <<>>)
            /\ Goto("transcribing")
            /\ UNCHANGED <<exit_code, raised>>
       ELSE ExitOne("error_loading_model", "load")
    /\ UNCHANGED <<args, env, device, auto_source, torch_imported, yielded, info, results,
                   text_content, final_json, output_json_path, f_open, f_pos, fs, fs0,
                   stdout, dp, rc, last_writer>>

\* lines 96-109: model.transcribe returns the generator and the metadata
Transcribe(meta) ==
    /\ pc = "transcribing"
    /\ calls' = [calls EXCEPT !.transcribe = @ + 1]
    /\ info' = meta
    /\ results' = <<>>
    /\ text_content' = <<>>
    /\ Goto("accumulating")
    /\ UNCHANGED <<args, env, device, auto_source, torch_imported, yielded, final_json,
                   output_json_path, f_open, f_pos, fs, fs0, stdout, stderr, exit_code,
                   raised, dp, rc, last_writer>>

\* lines 96-103 raise; handler 152-154
TranscribeFails ==
    /\ pc = "transcribing"
    /\ calls' = [calls EXCEPT !.transcribe = @ + 1]
    /\ ExitOne("error_during_transcription", "transcribe")
    /\ UNCHANGED <<args, env, device, auto_source, torch_imported, yielded, info, results,
                   text_content, final_json, output_json_path, f_open, f_pos, fs, fs0,
                   stdout, dp, rc, last_writer>>

\* lines 110-118: one iteration of the for loop over the generator
ConsumeSegment(segment) ==
    /\ pc = "accumulating"
    /\ Len(yielded) < MaxSegs
    /\ yielded' = Append(yielded, segment)
    /\ results' = Append(results, SegmentDict(Len(results), segment))
    /\ text_content' = Append(text_content, Strip(segment.text))
    /\ UNCHANGED <<pc, trail, args, env, device, auto_source, torch_imported, info,
                   final_json, output_json_path, f_open, f_pos, fs, fs0, stdout, stderr,
                   exit_code, calls, raised, dp, rc, last_writer>>

ConsumeFailsWritesPartial ==
    /\ pc = "accumulating"
    /\ Log(<<"error_during_transcription">>)
    /\ raised' = "consume"
    /\ final_json' = FinalJson(text_content, results, info)
    /\ output_json_path' = DerivePath(args.output_dir, args.audio_path)
    /\ Goto("writing")
    /\ UNCHANGED <<args, env, device, auto_source, torch_imported, yielded, info, results,
                   text_content, f_open, f_pos, fs, fs0, stdout, exit_code, calls, dp, rc,
                   last_writer>>

\* the generator raises while being iterated (line 110); handler 152-154
ConsumeFails ==
    /\ pc = "accumulating"
    /\ ExitOne("error_during_transcription", "consume")
    /\ UNCHANGED <<args, env, device, auto_source, torch_imported, yielded, info, results,
                   text_content, final_json, output_json_path, f_open, f_pos, fs, fs0,
                   stdout, calls, dp, rc, last_writer>>

\* the generator is exhausted; lines 127-138 build final_json and the path
BuildResult ==
    /\ pc = "accumulating"
    /\ final_json' = FinalJson(text_content, results, info)
    /\ output_json_path' = DerivePath(args.output_dir, args.audio_path)
    /\ Goto("writing")
    /\ UNCHANGED <<args, env, device, auto_source, torch_imported, yielded, info, results,
                   text_content, f_open, f_pos, fs, fs0, stdout, stderr, exit_code, calls,
                   raised, dp, rc, last_writer>>

OpenOutputPrintsPath(ok) ==
    /\ pc = "writing"
    /\ ~f_open
    /\ calls.open = 0
    /\ calls' = [calls EXCEPT !.open = @ + 1]
    /\ IF ok
       THEN /\ fs' = OpenTruncate(fs, output_json_path)
            /\ f_open' = TRUE
            /\ f_pos' = 0
            /\ stdout' = Append(stdout, output_json_path)
            /\ UNCHANGED <<pc, trail, stderr, exit_code, raised>>
       ELSE /\ ExitOne("error_during_transcription", "open")
            /\ UNCHANGED <<fs, f_open, f_pos, stdout>>
    /\ UNCHANGED <<args, env, device, auto_source, torch_imported, yielded, info, results,
                   text_content, final_json, output_json_path, fs0, dp, rc, last_writer>>

\* line 140: open(output_json_path, "w") creates or truncates (ok) or raises OSError
OpenOutput(ok) ==
    /\ pc = "writing"
    /\ ~f_open
    /\ calls.open = 0
    /\ calls' = [calls EXCEPT !.open = @ + 1]
    /\ IF ok
       THEN /\ fs' = OpenTruncate(fs, output_json_path)
            /\ f_open' = TRUE
            /\ f_pos' = 0
            /\ UNCHANGED <<pc, trail, stderr, exit_code, raised>>
       ELSE /\ ExitOne("error_during_transcription", "open")
            /\ UNCHANGED <<fs, f_open, f_pos>>
    /\ UNCHANGED <<args, env, device, auto_source, torch_imported, yielded, info, results,
                   text_content, final_json, output_json_path, fs0, stdout, dp, rc,
                   last_writer>>

\* The chunks of the document json.dump has not handed to the file yet.
Pending == SubSeq(Serialise(final_json), f_pos + 1, Len(Serialise(final_json)))

\* line 141: the next k chunks of json.dump reach the file
DumpChunks(k) ==
    /\ pc = "writing"
    /\ f_open
    /\ k \in 1..Len(Pending)
    /\ fs' = [fs EXCEPT ![output_json_path].data = WriteAt(@, f_pos, SubSeq(Pending, 1, k))]
    /\ f_pos' = f_pos + k
    /\ UNCHANGED <<pc, trail, args, env, device, auto_source, torch_imported, yielded, info,
                   results, text_content, final_json, output_json_path, f_open, fs0, stdout,
                   stderr, exit_code, calls, raised, dp, rc, last_writer>>

\* line 141 raises before the document is complete (OSError from a write, or a value
\* json cannot serialise); the with statement closes f, then the handler 152-154 runs
DumpFails ==
    /\ pc = "writing"
    /\ f_open
    /\ Pending # <<>>
    /\ f_open' = FALSE
    /\ ExitOne("error_during_transcription", "dump")
    /\ UNCHANGED <<args, env, device, auto_source, torch_imported, yielded, info, results,
                   text_content, final_json, output_json_path, f_pos, fs, fs0, stdout,
                   calls, dp, rc, last_writer>>

\* end of the with block: the document is complete and f is closed
CloseOutput ==
    /\ pc = "writing"
    /\ f_open
    /\ Pending = <<>>
    /\ f_open' = FALSE
    /\ Goto("reporting")
    /\ UNCHANGED <<args, env, device, auto_source, torch_imported, yielded, info, results,
                   text_content, final_json, output_json_path, f_pos, fs, fs0, stdout,
                   stderr, exit_code, calls, raised, dp, rc, last_writer>>

\* lines 143-150, then main returns: exit status 0
Report ==
    /\ pc = "reporting"
    /\ Log(IF args.verbose THEN <<"complete", "total_time">> ELSE <<>>)
    /\ stdout' = Append(stdout, output_json_path)
    /\ exit_code' = 0
    /\ Goto("done")
    /\ UNCHANGED <<args, env, device, auto_source, torch_imported, yielded, info, results,
                   text_content, final_json, output_json_path, f_open, f_pos, fs, fs0,
                   calls, raised, dp, rc, last_writer>>

Next ==
    \/ ResolveDevice
    \/ \E ok \in BOOLEAN : LoadModel(ok)
    \/ \E meta \in Infos : Transcribe(meta)
    \/ TranscribeFails
    \/ \E segment \in RawSegments : ConsumeSegment(segment)
    \/ ConsumeFails
    \/ BuildResult
    \/ \E ok \in BOOLEAN : OpenOutput(ok)
    \/ \E k \in 1..(MaxSegs + 8) : DumpChunks(k)
    \/ DumpFails
    \/ CloseOutput
    \/ Report

Spec == Init /\ [][Next]_vars

-----------------------------------------------------------------------------
(* Device selection alone, over every answer the two libraries can give *)

InitDevice ==
    /\ MainIdle
    /\ args \in ArgSets
    /\ env \in Envs
    /\ fs = [q \in OutPaths |-> NoFile]
    /\ fs0 = fs
    /\ OthersIdle

NextDevice == ResolveDevice

SpecDevice == InitDevice /\ [][NextDevice]_vars

-----------------------------------------------------------------------------
(* Output path derivation alone, over short paths *)

PathAlphabet == {Slash, Dot, "a"}
PathInputs == SeqsUpTo(PathAlphabet, MaxPathLen) \cup AudioPaths
DirInputs == {OutDir, <<>>, <<"o", Slash>>}

FixedArgs == [audio_path |-> ClipWav, output_dir |-> OutDir, device |-> "cpu",
              model |-> "base", compute_type |-> "default", verbose |-> FALSE]

InitPath ==
    /\ MainIdle
    /\ args = FixedArgs
    /\ env = NoGpuEnv
    /\ fs = [q \in OutPaths |-> NoFile]
    /\ fs0 = fs
    /\ dp \in [output_dir : DirInputs, audio_path : PathInputs, out : {<<>>}, done : {FALSE}]
    /\ rc = [p \in {1, 2} |-> Idle]
    /\ last_writer = 0

\* lines 136-138 applied to (dp.output_dir, dp.audio_path)
DerivePathStep ==
    /\ ~dp.done
    /\ dp' = [dp EXCEPT !.out = DerivePath(dp.output_dir, dp.audio_path), !.done = TRUE]
    /\ UNCHANGED <<mainVars, fs, rc, last_writer>>

NextPath == DerivePathStep

SpecPath == InitPath /\ [][NextPath]_vars

-----------------------------------------------------------------------------
(* Two invocations whose inputs derive the same output path, lines 136-141 *)

RacePath == DerivePath(OutDir, ClipWav)

\* Documents the two invocations have built (zero, one and two segments).
RaceDocs ==
    {FinalJson(<<>>, <<>>, m) : m \in Infos}
    \cup {FinalJson(<<Strip(x.text)>>, <<SegmentDict(0, x)>>, m) : x \in RawSegments, m \in Infos}

InitRace ==
    /\ MainIdle
    /\ args = FixedArgs
    /\ env = NoGpuEnv
    /\ fs \in [OutPaths -> {NoFile, OldFile}]
    /\ \A q \in OutPaths : q # RacePath => fs[q] = NoFile
    /\ fs0 = fs
    /\ dp = DpIdle
    /\ rc \in [{1, 2} -> {[pc |-> "writing", pos |-> 0, doc |-> d] : d \in RaceDocs}]
    /\ last_writer = 0

\* line 140 in invocation p
RaceOpen(p) ==
    /\ rc[p].pc = "writing"
    /\ fs' = OpenTruncate(fs, RacePath)
    /\ rc' = [rc EXCEPT ![p].pc = "open", ![p].pos = 0]
    /\ UNCHANGED <<mainVars, dp, last_writer>>

\* line 141 in invocation p: its next k chunks reach the file at its own offset
RaceDump(p, k) ==
    /\ rc[p].pc = "open"
    /\ k \in 1..(Len(Serialise(rc[p].doc)) - rc[p].pos)
    /\ fs' = [fs EXCEPT ![RacePath].data =
                WriteAt(@, rc[p].pos, SubSeq(Serialise(rc[p].doc), rc[p].pos + 1, rc[p].pos + k))]
    /\ rc' = [rc EXCEPT ![p].pos = @ + k]
    /\ last_writer' = p
    /\ UNCHANGED <<mainVars, dp>>

\* end of the with block in invocation p
RaceClose(p) ==
    /\ rc[p].pc = "open"
    /\ rc[p].pos = Len(Serialise(rc[p].doc))
    /\ rc' = [rc EXCEPT ![p].pc = "closed"]
    /\ UNCHANGED <<mainVars, fs, dp, last_writer>>

NextRace ==
    \E p \in {1, 2} :
        \/ RaceOpen(p)
        \/ \E k \in 1..(MaxSegs + 8) : RaceDump(p, k)
        \/ RaceClose(p)

SpecRace == InitRace /\ [][NextRace]_vars

-----------------------------------------------------------------------------
(* Properties *)

ThisPath == DerivePath(args.output_dir, args.audio_path)

ClipJson == <<"/", "o", "u", "t", "/", "c", "l", "i", "p", ".", "j", "s", "o", "n">>
ABJson == <<"/", "o", "u", "t", "/", "a", ".", "b", ".", "j", "s", "o", "n">>

Last(q) == q[Len(q)]

\* C1: when the engine constructor raises, the run has ended with exit code 1,
\* transcribe was never called, the output path was never opened, and every file
\* under output_dir is as it was when the run started (none created).
C1_LoadFailureLeavesNoOutput ==
    raised = "load" =>
        /\ pc = "failed"
        /\ exit_code = 1
        /\ calls.transcribe = 0
        /\ calls.open = 0
        /\ ~f_open
        /\ \A q \in OutPaths : fs[q] = fs0[q]

C1_Witness ==
    /\ raised = "load"
    /\ pc = "failed"
    /\ device = "cuda"
    /\ args.model = "no-such-model"
    /\ args.compute_type = "int8"
    /\ fs[ThisPath] = NoFile

\* C2: in every reachable state a file under output_dir either does not exist or
\* holds one complete, well-formed document.
C2_WriteIsAllOrNothing ==
    \A q \in OutPaths : fs[q].exists => WellFormed(fs[q].data)

CtPositive == env.ct.kind = "count" /\ env.ct.count > 0
TorchPositive == env.th.kind = "answer" /\ env.th.available

\* C3: resolve_auto_device never raises, and when neither probe answers that a GPU
\* is available (whatever else the probes do) it returns cpu with source fallback.
C3_ResolverNeverRaises ==
    /\ pc # "crashed"
    /\ (pc = "loading" /\ args.device = "auto" /\ ~CtPositive /\ ~TorchPositive)
         => (device = "cpu" /\ auto_source = "fallback")

C3_Witness ==
    /\ pc = "loading"
    /\ args.device = "auto"
    /\ env.ct.kind = "query_error"
    /\ env.th.kind = "import_error"
    /\ device = "cpu"
    /\ auto_source = "fallback"

\* C4: a positive ctranslate2 answer decides cuda/ctranslate2 whatever torch would do,
\* torch is consulted only when ctranslate2 gave no positive answer, and then a
\* positive torch answer decides cuda/torch.
C4_PrimaryProbeWins ==
    (pc = "loading" /\ args.device = "auto") =>
        /\ CtPositive => (device = "cuda" /\ auto_source = "ctranslate2" /\ ~torch_imported)
        /\ torch_imported => ~CtPositive
        /\ (~CtPositive /\ TorchPositive) => (device = "cuda" /\ auto_source = "torch")

C4_Witness ==
    /\ pc = "loading"
    /\ args.device = "auto"
    /\ env.ct.count = 2
    /\ env.th.kind = "query_error"
    /\ auto_source = "ctranslate2"

\* t is s without its leading and trailing whitespace.
IsTrimOf(t, s) ==
    /\ t # <<>> => (t[1] \notin Whitespace /\ t[Len(t)] \notin Whitespace)
    /\ \E lead \in 0..Len(s) :
          /\ lead + Len(t) <= Len(s)
          /\ \A i \in 1..Len(s) :
                IF i > lead /\ i <= lead + Len(t) THEN s[i] = t[i - lead]
                ELSE s[i] \in Whitespace

\* C5: the built result has one segment per yielded element, in emission order, with
\* ids 0..N-1, the element's times and its trimmed text; its text is the single-space
\* join of the segments' texts (empty for N = 0); and the file of a finished write
\* parses back to exactly this result.
C5_SegmentsInOrder ==
    /\ final_json.built =>
          /\ Len(final_json.segments) = Len(yielded)
          /\ \A i \in 1..Len(yielded) :
                /\ final_json.segments[i].id = i - 1
                /\ final_json.segments[i].start = yielded[i].start
                /\ final_json.segments[i].end = yielded[i].end
                /\ IsTrimOf(final_json.segments[i].text, yielded[i].text)
          /\ final_json.text =
                JoinTexts([i \in 1..Len(final_json.segments) |-> final_json.segments[i].text])
          /\ Len(yielded) = 0 => final_json.text = <<>>
    /\ pc \in {"reporting", "done"} =>
          /\ WellFormed(fs[output_json_path].data)
          /\ Parse(fs[output_json_path].data) = final_json

C5_Witness ==
    /\ pc = "done"
    /\ Len(yielded) = 2
    /\ yielded[2].text = <<" ", "b", " ">>
    /\ final_json.text = <<"a", " ", "b">>
    /\ Parse(fs[output_json_path].data).segments[2].id = 1

ErrorMessages == {"error_loading_model", "error_during_transcription"}

\* C6: a finished run has exit code 0 and exactly the output path on stdout; a run
\* whose load, transcribe or consumption raised has exit code 1, an error message on
\* stderr and nothing on stdout; the path is on stdout only once the file holds the
\* complete document; exit code 1 never comes with a path on stdout.
C6_ExitProtocol ==
    /\ pc = "done" =>
          /\ exit_code = 0
          /\ stdout = <<ClipJson>>
          /\ output_json_path = ClipJson
    /\ exit_code = 0 => pc = "done"
    /\ raised \in {"load", "transcribe", "consume"} =>
          /\ exit_code = 1
          /\ stdout = <<>>
          /\ stderr # <<>>
          /\ Last(stderr) \in ErrorMessages
    /\ stdout # <<>> =>
          /\ fs[output_json_path].exists
          /\ fs[output_json_path].data = Serialise(final_json)
          /\ ~f_open
    /\ exit_code = 1 => stdout = <<>>

C6_Witness ==
    /\ pc = "done"
    /\ exit_code = 0
    /\ stdout = <<ClipJson>>
    /\ args.verbose
    /\ Len(yielded) = 2

\* C7: when transcribe or the iteration of the segments raises, the run has ended with
\* exit code 1 and the output path was never opened: every file is as it was when the
\* run started, an already existing file included.
C7_TranscriptionFailureWritesNothing ==
    raised \in {"transcribe", "consume"} =>
        /\ pc = "failed"
        /\ exit_code = 1
        /\ calls.open = 0
        /\ ~f_open
        /\ \A q \in OutPaths : fs[q] = fs0[q]

C7_Witness ==
    /\ raised = "consume"
    /\ Len(yielded) = 2
    /\ Len(results) = 2
    /\ pc = "failed"
    /\ fs0[ThisPath] = OldFile
    /\ fs[ThisPath] = OldFile

HasChar(q, c) == \E i \in 1..Len(q) : q[i] = c

\* output_dir as a prefix: a separator is added unless it is empty or ends with one.
DirPrefix(o) == IF o = <<>> \/ Last(o) = Slash THEN o ELSE o \o <<Slash>>

\* A dot of the name that ends a stem: some earlier character of the name is no dot.
HasExtension(name) ==
    \E k \in 1..Len(name) : name[k] = Dot /\ \E m \in 1..(k - 1) : name[m] # Dot

\* out is output_dir joined with (the base name of audio_path minus its final
\* extension) plus ".json": audio_path = directory part \o name \o extension.
IsDerivedPath(o, a, out) ==
    \E i \in 0..Len(a) : \E j \in i..Len(a) :
        LET dir == SubSeq(a, 1, i)
            name == SubSeq(a, i + 1, j)
            ext == SubSeq(a, j + 1, Len(a))
        IN /\ dir = <<>> \/ Last(dir) = Slash
           /\ ~HasChar(name, Slash)
           /\ ~HasChar(ext, Slash)
           /\ IF ext = <<>> THEN ~HasExtension(name)
              ELSE /\ ext[1] = Dot
                   /\ ~HasChar(Tail(ext), Dot)
                   /\ \E m \in 1..Len(name) : name[m] # Dot
           /\ out = DirPrefix(o) \o name \o JsonSuffix
           /\ \A other \in {<<>>, <<Slash>>, <<"a", Slash>>, <<Dot, "a", Slash>>} :
                 DerivePath(o, other \o name \o ext) = out

\* C8: the derived path is output_dir joined with the audio file's base name, its final
\* extension only stripped, plus .json; the directory part of audio_path has no
\* influence; /in/clip.wav gives /out/clip.json and a.b.mp3 gives /out/a.b.json.
C8_DerivedPath ==
    dp.done =>
        /\ IsDerivedPath(dp.output_dir, dp.audio_path, dp.out)
        /\ (dp.output_dir = OutDir /\ dp.audio_path = ClipWav) => dp.out = ClipJson
        /\ (dp.output_dir = OutDir /\ dp.audio_path = ABMp3) => dp.out = ABJson

C8_Witness ==
    /\ dp.done
    /\ dp.output_dir = OutDir
    /\ dp.audio_path = ABMp3
    /\ dp.out = ABJson

\* The order of the steps; reporting (lines 143-150) is the end of Writing.
StepOrder == <<"idle", "loading", "transcribing", "accumulating", "writing", "reporting",
               "done">>

IsPrefixOfOrder(t) == Len(t) <= Len(StepOrder) /\ t = SubSeq(StepOrder, 1, Len(t))

\* C9: the steps are entered in the order Idle, Loading, Transcribing, Accumulating,
\* Writing, Done, each at most once; the constructor, transcribe and open run at most
\* once; an exception in any step ends the run in Failed at once; Done and Failed are
\* terminal and exclude each other.
C9_StateMachine ==
    /\ pc = Last(trail)
    /\ \/ IsPrefixOfOrder(trail)
       \/ /\ Last(trail) = "failed"
          /\ Len(trail) >= 3
          /\ IsPrefixOfOrder(SubSeq(trail, 1, Len(trail) - 1))
          /\ Len(trail) <= 6
    /\ calls.load <= 1 /\ calls.transcribe <= 1 /\ calls.open <= 1
    /\ raised # "" <=> pc = "failed"
    /\ pc = "failed" => exit_code = 1
    /\ pc \in {"done", "failed"} => ~ENABLED Next
    /\ pc \notin {"done", "failed"} => exit_code = -1

C9_Witness ==
    /\ pc = "failed"
    /\ raised = "dump"
    /\ trail = <<"idle", "loading", "transcribing", "accumulating", "writing", "failed">>
    /\ calls = [load |-> 1, transcribe |-> 1, open |-> 1]

\* C10: once both racing invocations have closed the file, it holds exactly the
\* complete document of the invocation whose write came last.
C10_LastWriterWins ==
    (\A p \in {1, 2} : rc[p].pc = "closed") =>
        fs[RacePath].data = Serialise(rc[last_writer].doc)

====
